---------------------------- MODULE Spec2Model ----------------------------
(***************************************************************************)
(* Kelly-criterion capital allocation (calc.py, kelly.py, data.py,         *)
(* display.py).                                                            *)
(*                                                                         *)
(* Numbers.  A float64 is a record [n, d, k, h].                           *)
(*   k = "exact"   the float is the extended rational n/d: d > 0 is a      *)
(*                 finite value in lowest terms, d = 0 holds the IEEE      *)
(*                 special values (n = 1: +inf, n = -1: -inf, n = 0: NaN). *)
(*   k = "approx"  the float is finite and is n/d up to rounding error:    *)
(*                 the result of an operation whose exact result is not a  *)
(*                 binary fraction, or of an operation on such a result.   *)
(*                 With n = 0 it is a rounding residue: zero or a tiny     *)
(*                 value of either sign.                                   *)
(*   k = "finite"  a finite float of no definite value (a quotient by a    *)
(*                 non-zero rounding residue, and what is computed from    *)
(*                 it); overflow of such values is not modelled.           *)
(*   k = "unknown" a float of no definite value, NaN and +-inf included.   *)
(* h is <<>> for an exact float and otherwise names the computation that   *)
(* produced the float (<<"lit">> for the double nearest to n/d, or the     *)
(* operation with its operands); IEEE operations are functions of their    *)
(* operands, so two records with the same h are the same float (up to    *)
(* the sign of a zero whose sign is undecided).  An                        *)
(* operation on exact operands is exact when its exact result is a finite  *)
(* binary fraction or a special value (IEEE 754 correct rounding); the     *)
(* integers met here are far below 2^53.  A test float == 0 has a definite *)
(* outcome on an exact float and on an approximate one with n # 0; on a    *)
(* rounding residue both outcomes are kept, because which one happens is   *)
(* decided by the last bit of the operands.  Likewise a comparison or a    *)
(* test for NaN has both outcomes where n/d and k do not decide it.  A     *)
(* rounding residue has no sign: its negation and its absolute value are   *)
(* numbers of their own.  An exact zero carries its IEEE sign in h:        *)
(* <<>> is +0.0, <<"-0">> is -0.0 and <<"+-0">> a zero whose sign the      *)
(* last bits of the operands decide.                                       *)
(*                                                                         *)
(* A DataFrame is a sequence of rows, each row a sequence with one cell    *)
(* per ticker; a numpy vector is a sequence of cells, a numpy matrix a     *)
(* sequence of rows.                                                       *)
(***************************************************************************)
EXTENDS Integers, Sequences, FiniteSets

VARIABLES
    pc,             \* position in the function under check / in main
    args,           \* argparse.Namespace: tickers, risk_free_rate, diagonal, full_kelly
    prices,         \* DataFrame of prices
    returns,        \* DataFrame of simple returns
    excess_returns, \* DataFrame of excess returns
    F,              \* Kelly leverage vector
    M,              \* annualized mean excess return vector
    C,              \* annualized covariance matrix
    F_half,         \* half-Kelly vector
    sharpe,         \* portfolio Sharpe ratio
    growth_rate,    \* maximum growth rate
    raised,         \* the exception the last call raised ("none" when it returned)
    calls,          \* the calls made so far, in order
    exit_code       \* main's return value (-1 while running)

vars == <<pc, args, prices, returns, excess_returns, F, M, C, F_half, sharpe,
          growth_rate, raised, calls, exit_code>>

-----------------------------------------------------------------------------
(* Bounds of the model *)

\* most rows of a price matrix handed to compute_returns
MaxPriceRows == 3

\* most rows (observations) of an excess-returns matrix handed to
\* compute_kelly_vector
MaxObs == 3

\* most rows of the price matrix fetch_prices returns
MaxFetchRows == 4

\* the ticker lists checked: one or two instruments
TickerLists == {<<"A">>, <<"A", "B">>}

\* prices handed to compute_returns (zero and negative included)
PriceValues == {-1, 0, 1, 2}

\* prices the data provider returns
MarketPrices == {1, 2}

\* excess returns handed to compute_kelly_vector, in hundredths
ExcessHundredths == {-1, 0, 1}

-----------------------------------------------------------------------------------------------------------------------------------------------------
(* Exact rational arithmetic on the n/d part of a number *)

Sgn(i) == IF i > 0 THEN 1 ELSE IF i < 0 THEN -1 ELSE 0

AbsI(i) == IF i < 0 THEN -i ELSE i

RECURSIVE GCD(_, _)
GCD(a, b) == IF b = 0 THEN a ELSE GCD(b, a % b)

\* n/d in lowest terms with d >= 0; d = 0 keeps only the sign of n
Norm(n, d) ==
    IF d = 0 THEN [n |-> Sgn(n), d |-> 0]
    ELSE LET g == GCD(AbsI(n), AbsI(d))
             s == Sgn(d)
         IN  [n |-> s * (n \div g), d |-> s * (d \div g)]

\* the n/d part of a number
Nom(x) == [n |-> x.n, d |-> x.d]

QZero == [n |-> 0, d |-> 1]
QNaN == [n |-> 0, d |-> 0]

QNeg(x) == [n |-> -x.n, d |-> x.d]

QAdd(x, y) ==
    IF x.d = 0 /\ y.d = 0 THEN (IF x.n = y.n THEN Nom(x) ELSE QNaN)
    ELSE IF x.d = 0 THEN Nom(x)
    ELSE IF y.d = 0 THEN Nom(y)
    ELSE LET g == GCD(x.d, y.d)
         IN  Norm(x.n * (y.d \div g) + y.n * (x.d \div g), (x.d \div g) * y.d)

QSub(x, y) == QAdd(x, QNeg(y))

QMul(x, y) ==
    IF x.d = 0 \/ y.d = 0 THEN Norm(x.n * y.n, 0)
    ELSE IF x.n = 0 \/ y.n = 0 THEN QZero
    ELSE LET g1 == GCD(AbsI(x.n), y.d)
             g2 == GCD(AbsI(y.n), x.d)
         IN  Norm((x.n \div g1) * (y.n \div g2), (x.d \div g2) * (y.d \div g1))

QRecip(x) == IF x.d = 0 /\ x.n = 0 THEN QNaN ELSE Norm(x.d, x.n)

QDiv(x, y) == QMul(x, QRecip(y))

\* x < y; every comparison with NaN is false
QLess(x, y) ==
    IF (x.d = 0 /\ x.n = 0) \/ (y.d = 0 /\ y.n = 0) THEN FALSE
    ELSE IF x.d = 0 /\ y.d = 0 THEN x.n < y.n
    ELSE IF x.d = 0 THEN x.n < 0
    ELSE IF y.d = 0 THEN y.n > 0
    ELSE x.n * y.d < y.n * x.d

RECURSIVE IsPow2(_)
IsPow2(d) == d = 1 \/ (d > 1 /\ d % 2 = 0 /\ IsPow2(d \div 2))

-----------------------------------------------------------------------------
(* float64 arithmetic (the float operations of numpy / pandas) *)

Exact(q) == [n |-> q.n, d |-> q.d, k |-> "exact", h |-> <<>>]

Approx(q, h) == [n |-> q.n, d |-> q.d, k |-> "approx", h |-> h]

FiniteUnknown(h) == [n |-> 1, d |-> 0, k |-> "finite", h |-> h]

Unknown(h) == [n |-> 1, d |-> 0, k |-> "unknown", h |-> h]

\* the correctly rounded result of an operation whose exact result is q
Round(q, h) == IF q.d = 0 \/ IsPow2(q.d) THEN Exact(q) ELSE Approx(q, h)

\* the double nearest to n/d
Rat(n, d) == Round(Norm(n, d), <<"lit">>)

Zero == Exact(QZero)
\* -0.0
NegZero == [Zero EXCEPT !.h = <<"-0">>]
\* 0.0 or -0.0
AnyZero == [Zero EXCEPT !.h = <<"+-0">>]
One == Exact([n |-> 1, d |-> 1])
NaN == Exact(QNaN)

IsExact(x) == x.k = "exact"
IsZero(x) == x.k = "exact" /\ x.n = 0 /\ x.d = 1
\* the outcomes of np.isnan(x): an exact NaN is one, a float of no
\* definite value may be one
MayBeNaN(x) == x = NaN \/ x.k = "unknown"
MayBeNumber(x) == x # NaN

\* the outcomes of np.isfinite(x)
MayBeNonFinite(x) == (x.k = "exact" /\ x.d = 0) \/ x.k = "unknown"
MayBeFinite(x) == ~(x.k = "exact" /\ x.d = 0)

\* np.isfinite(x) has the one outcome True
SurelyFinite(x) == ~MayBeNonFinite(x)

\* the n/d part says what the float is, exactly or up to rounding
Trusted(x) == x.k \in {"exact", "approx"}

\* the float is zero or a tiny value: which one the last bits decide
Residue(x) == x.k = "approx" /\ x.n = 0

\* the outcomes of the test x == 0.0
MayBeZero(x) == IsZero(x) \/ Residue(x) \/ x.k \in {"finite", "unknown"}
MayBeNonZero(x) == ~IsZero(x)

\* the sign bit of x as 1 or -1, 0 where the record does not tell it
SignOf(x) ==
    IF IsZero(x) THEN (IF x = Zero THEN 1 ELSE IF x = NegZero THEN -1 ELSE 0)
    ELSE IF Trusted(x) THEN Sgn(x.n)
    ELSE 0

\* the zero, and the infinity, of sign bit s
ZeroSigned(s) == IF s > 0 THEN Zero ELSE IF s < 0 THEN NegZero ELSE AnyZero
InfSigned(s, h) == IF s = 0 THEN Unknown(h) ELSE Exact(Norm(s, 0))

\* -x: rounding is symmetric in sign, so h is kept and the sign of n/d
\* flipped; a rounding residue has no sign in n/d, so its negation is a
\* number of its own, and the negation of that is the residue again
Neg(x) ==
    IF IsZero(x) THEN ZeroSigned(-SignOf(x))
    ELSE IF Residue(x)
    THEN (IF x.h[1] = "neg" THEN x.h[2] ELSE Approx(QZero, <<"neg", x>>))
    ELSE [x EXCEPT !.n = -x.n]

Add(x, y) ==
    LET h == <<"+", x, y>>
    IN  IF IsZero(x) /\ IsZero(y)
        THEN (IF x = y THEN x ELSE IF x = Zero \/ y = Zero THEN Zero ELSE AnyZero)
        ELSE IF IsExact(x) /\ IsExact(y) THEN Round(QAdd(x, y), h)
        ELSE IF x = NaN \/ y = NaN THEN NaN
        ELSE IF IsZero(x) THEN y
        ELSE IF IsZero(y) THEN x
        ELSE IF SurelyFinite(x) /\ y = Neg(x) THEN Zero
        ELSE IF x.k = "unknown" \/ y.k = "unknown" THEN Unknown(h)
        ELSE IF ~SurelyFinite(x) THEN x
        ELSE IF ~SurelyFinite(y) THEN y
        ELSE IF x.k = "finite" \/ y.k = "finite" THEN FiniteUnknown(h)
        ELSE Approx(QAdd(x, y), h)

Sub(x, y) == Add(x, Neg(y))

Mul(x, y) ==
    LET h == <<"*", x, y>>
    IN  IF IsExact(x) /\ IsExact(y)
        THEN (IF QMul(x, y) = QZero THEN ZeroSigned(SignOf(x) * SignOf(y))
              ELSE Round(QMul(x, y), h))
        ELSE IF x = NaN \/ y = NaN THEN NaN
        ELSE IF IsZero(x) \/ IsZero(y)
             THEN (IF SurelyFinite(x) /\ SurelyFinite(y)
                   THEN ZeroSigned(SignOf(x) * SignOf(y)) ELSE Unknown(h))
        ELSE IF x = One THEN y
        ELSE IF y = One THEN x
        ELSE IF x = Neg(One) THEN Neg(y)
        ELSE IF y = Neg(One) THEN Neg(x)
        ELSE IF x.k = "unknown" \/ y.k = "unknown" THEN Unknown(h)
        ELSE IF ~SurelyFinite(x)
             THEN (IF y.k = "approx" /\ y.n # 0
                   THEN Exact(Norm(x.n * Sgn(y.n), 0)) ELSE Unknown(h))
        ELSE IF ~SurelyFinite(y)
             THEN (IF x.k = "approx" /\ x.n # 0
                   THEN Exact(Norm(y.n * Sgn(x.n), 0)) ELSE Unknown(h))
        ELSE IF x.k = "finite" \/ y.k = "finite" THEN FiniteUnknown(h)
        ELSE Approx(QMul(x, y), h)

\* x / y
Div(x, y) ==
    LET h == <<"/", x, y>>
    IN  IF IsExact(x) /\ IsExact(y)
        THEN (IF x = NaN \/ y = NaN \/ (IsZero(x) /\ IsZero(y)) THEN NaN
              ELSE IF IsZero(y) THEN InfSigned(SignOf(x) * SignOf(y), h)
              ELSE IF QDiv(x, y) = QZero THEN ZeroSigned(SignOf(x) * SignOf(y))
              ELSE Round(QDiv(x, y), h))
        ELSE IF x = NaN \/ y = NaN THEN NaN
        ELSE IF y = One THEN x
        ELSE IF y = Neg(One) THEN Neg(x)
        ELSE IF x = y /\ x.k = "approx" /\ x.n # 0 THEN One
        ELSE IF x = Neg(y) /\ x.k = "approx" /\ x.n # 0 THEN Neg(One)
        ELSE IF IsZero(y)
             THEN (IF x.k = "approx" /\ x.n # 0
                   THEN InfSigned(SignOf(x) * SignOf(y), h) ELSE Unknown(h))
        ELSE IF IsExact(y) /\ y.d = 0
             THEN (IF SurelyFinite(x) THEN ZeroSigned(SignOf(x) * SignOf(y))
                   ELSE Unknown(h))
        ELSE IF Trusted(y) /\ y.n # 0
             THEN (IF IsZero(x) THEN ZeroSigned(SignOf(x) * SignOf(y))
                   ELSE IF IsExact(x) /\ x.d = 0 THEN Exact(Norm(x.n * Sgn(y.n), 0))
                   ELSE IF x.k = "unknown" THEN Unknown(h)
                   ELSE IF x.k = "finite" THEN FiniteUnknown(h)
                   ELSE Approx(QDiv(x, y), h))
        ELSE Unknown(h)

\* x / y where the test y != 0.0 has passed
DivNZ(x, y) ==
    LET h == <<"/", x, y>>
    IN  IF Residue(y) \/ y.k = "finite"
        THEN (IF x = NaN THEN NaN
              ELSE IF IsZero(x) THEN AnyZero
              ELSE IF x = y THEN One
              ELSE IF x = Neg(y) THEN Neg(One)
              ELSE IF SurelyFinite(x) THEN FiniteUnknown(h)
              ELSE Unknown(h))
        ELSE Div(x, y)

\* the outcomes of x < y: every comparison with NaN is false; between two
\* floats whose n/d parts agree, or of which one has no definite value,
\* the comparison can go either way
LessOutcomes(x, y) ==
    IF x = NaN \/ y = NaN \/ x = y THEN {FALSE}
    ELSE IF IsExact(x) /\ IsExact(y) THEN {QLess(x, y)}
    ELSE IF IsExact(x) /\ x.d = 0
         THEN (IF x.n > 0 THEN {FALSE}
               ELSE IF SurelyFinite(y) THEN {TRUE} ELSE BOOLEAN)
    ELSE IF IsExact(y) /\ y.d = 0
         THEN (IF y.n < 0 THEN {FALSE}
               ELSE IF SurelyFinite(x) THEN {TRUE} ELSE BOOLEAN)
    ELSE IF Trusted(x) /\ Trusted(y) /\ Nom(x) # Nom(y) THEN {QLess(x, y)}
    ELSE BOOLEAN

MayBeLess(x, y) == TRUE \in LessOutcomes(x, y)
MayBeNotLess(x, y) == FALSE \in LessOutcomes(x, y)

\* abs(x): of a float whose sign n/d does not tell, a number of its own,
\* the same for x, -x and abs(x)
AbsR(x) ==
    IF IsZero(x) THEN Zero
    ELSE IF Trusted(x) /\ ~Residue(x) THEN [x EXCEPT !.n = AbsI(x.n)]
    ELSE IF x.h[1] = "abs" /\ x.n >= 0 THEN x
    ELSE IF x.h[1] = "abs" THEN [x EXCEPT !.n = AbsI(x.n)]
    ELSE IF Residue(x) /\ x.h[1] = "neg" THEN Approx(QZero, <<"abs", x.h[2]>>)
    ELSE [x EXCEPT !.n = AbsI(x.n), !.h = <<"abs", [x EXCEPT !.n = AbsI(x.n)]>>]

-----
(* calc.py: the transforms *)

Unset == <<>>

\* the function f on 1..n as the sequence <<f[1], ..., f[n]>>, each cell
\* evaluated once
RECURSIVE ToSeq(_, _)
ToSeq(f, n) == IF n <= 0 THEN <<>> ELSE Append(ToSeq(f, n - 1), f[n])

Tup(f) == ToSeq(f, Cardinality(DOMAIN f))

\* DataFrame.shift(1): row t holds row t-1, the first row is NaN
Shift(df) ==
    Tup([t \in 1..Len(df) |->
        IF t = 1 THEN Tup([k \in 1..Len(df[1]) |-> NaN]) ELSE df[t - 1]])

\* DataFrame.pct_change(): data / data.shift(1) - 1, cell by cell
PctChange(df) ==
    LET prev == Shift(df)
    IN  Tup([t \in 1..Len(df) |->
            Tup([k \in 1..Len(df[t]) |-> Sub(Div(df[t][k], prev[t][k]), One)])])

\* .iloc[1:]: every row but the first
ILocFrom1(df) == Tup([t \in 1..(Len(df) - 1) |-> df[t + 1]])

\* faulty variant: the leading NaN row of pct_change is kept
compute_returns_NoDrop(p) == PctChange(p)

compute_returns(p) == ILocFrom1(PctChange(p))

TradingDays == 252

\* faulty variant: the annual rate is spread over calendar days
compute_excess_returns_Calendar(r, annual_rf) ==
    LET daily_rf == Div(annual_rf, Rat(365, 1))
    IN  Tup([t \in 1..Len(r) |-> Tup([k \in 1..Len(r[t]) |-> Sub(r[t][k], daily_rf)])])

compute_excess_returns(r, annual_rf) ==
    LET daily_rf == Div(annual_rf, Rat(TradingDays, 1))
    IN  Tup([t \in 1..Len(r) |-> Tup([k \in 1..Len(r[t]) |-> Sub(r[t][k], daily_rf)])])

-----------------------------------------------------------------------------
(* calc.py: the Kelly solver *)

NCols(df) == Len(df[1])

\* np.add.reduce: the cells added one by one, first to last
RECURSIVE SumFrom(_, _, _)
SumFrom(acc, s, i) == IF i > Len(s) THEN acc ELSE SumFrom(Add(acc, s[i]), s, i + 1)

\* a sum of cells that are all -0.0 is -0.0 when the reduction starts from
\* its first cell and 0.0 when it starts from an accumulator of 0.0: numpy
\* and BLAS builds differ in this
Reduced(x) == IF x = NegZero THEN AnyZero ELSE x

SumSeq(s) == IF s = <<>> THEN Zero ELSE Reduced(SumFrom(s[1], s, 2))

\* the cells of column k, on the rows of the set keep, in row order
RECURSIVE ColumnOn(_, _, _, _)
ColumnOn(df, k, keep, t) ==
    IF t > Len(df) THEN <<>>
    ELSE (IF t \in keep THEN <<df[t][k]>> ELSE <<>>) \o ColumnOn(df, k, keep, t + 1)

Column(df, k) == ColumnOn(df, k, 1..Len(df), 1)

\* DataFrame.mean(): column means, NaN cells skipped (skipna=True)
Mean(df) ==
    Tup([k \in 1..NCols(df) |->
        LET valid == {t \in 1..Len(df) : ~MayBeNaN(df[t][k])}
        IN  IF \E t \in 1..Len(df) : MayBeNaN(df[t][k]) /\ MayBeNumber(df[t][k])
            THEN Unknown(<<"mean", Column(df, k)>>)
            ELSE Div(SumSeq(ColumnOn(df, k, valid, 1)), Rat(Cardinality(valid), 1))])

\* the cells of s less their mean
Centered(s) ==
    LET avg == Div(SumSeq(s), Rat(Len(s), 1))
    IN  Tup([t \in 1..Len(s) |-> Sub(s[t], avg)])

\* the sum of x[t] * y[t], first to last
CoMoment(x, y) == SumSeq(Tup([t \in 1..Len(x) |-> Mul(x[t], y[t])]))

\* ddof of DataFrame.cov(): the unbiased N-1 denominator
Ddof == 1

\* numpy.cov(mat.T, ddof=1): used by DataFrame.cov() when no cell is NaN
NpCov(df) ==
    LET n == Len(df)
        X == Tup([k \in 1..NCols(df) |-> Centered(Column(df, k))])
        fact == IF n - Ddof <= 0 THEN 0 ELSE n - Ddof
        scale == Div(One, Rat(fact, 1))
    IN  Tup([i \in 1..NCols(df) |->
            Tup([j \in 1..NCols(df) |-> Mul(CoMoment(X[i], X[j]), scale)])])

\* pandas libalgos.nancorr, the loop over the rows for columns xi and yi:
\* Welford's one-pass update of the means and the co-moment on the rows
\* where both cells are finite
RECURSIVE Welford(_, _, _, _, _)
Welford(df, xi, yi, t, w) ==
    IF t > Len(df) THEN w
    ELSE IF SurelyFinite(df[t][xi]) /\ SurelyFinite(df[t][yi])
         THEN LET vx == df[t][xi]
                  vy == df[t][yi]
                  nobs == w.nobs + 1
                  dx == Sub(vx, w.meanx)
                  dy == Sub(vy, w.meany)
                  inv == Div(One, Rat(nobs, 1))
                  meanx == Add(w.meanx, Mul(inv, dx))
                  meany == Add(w.meany, Mul(inv, dy))
                  covxy == Add(w.covxy, Mul(Sub(vx, meanx), dy))
              IN  Welford(df, xi, yi, t + 1,
                          [nobs |-> nobs, meanx |-> meanx, meany |-> meany,
                           covxy |-> covxy])
         ELSE Welford(df, xi, yi, t + 1, w)

\* pandas libalgos.nancorr, after the loop: NaN below minp = 1
\* observations or with nobs - 1 = 0, the co-moment over nobs - 1 otherwise
WelfordCov(w) ==
    IF w.nobs < 1 \/ w.nobs - Ddof = 0 THEN NaN
    ELSE Div(w.covxy, Rat(w.nobs - Ddof, 1))

\* pandas libalgos.nancorr(mat, cov=True, minp=1): the entry of columns
\* xi >= yi is computed and mirrored
NanCov(df) ==
    Tup([i \in 1..NCols(df) |->
        Tup([j \in 1..NCols(df) |->
            LET xi == IF i >= j THEN i ELSE j
                yi == IF i >= j THEN j ELSE i
            IN  IF \E t \in 1..Len(df) :
                       df[t][xi].k = "unknown" \/ df[t][yi].k = "unknown"
                THEN Unknown(<<"nancorr", Column(df, xi), Column(df, yi)>>)
                ELSE WelfordCov(Welford(df, xi, yi, 1,
                                        [nobs |-> 0, meanx |-> Zero, meany |-> Zero,
                                         covxy |-> Zero]))])])

\* faulty variant: the population (N denominator) covariance
CovBiased(df) ==
    LET X == Tup([k \in 1..NCols(df) |-> Centered(Column(df, k))])
    IN  Tup([i \in 1..NCols(df) |->
            Tup([j \in 1..NCols(df) |->
                Mul(CoMoment(X[i], X[j]), Div(One, Rat(Len(df), 1)))])])

\* DataFrame.cov()
Cov(df) ==
    IF \E t \in 1..Len(df) : \E k \in 1..NCols(df) : df[t][k].k = "unknown"
    THEN Tup([i \in 1..NCols(df) |->
            Tup([j \in 1..NCols(df) |->
                Unknown(<<"cov", Column(df, i), Column(df, j)>>)])])
    ELSE IF \A t \in 1..Len(df) : \A k \in 1..NCols(df) : ~MayBeNaN(df[t][k])
    THEN NpCov(df)
    ELSE NanCov(df)

ScaleVec(v, c) == Tup([k \in 1..Len(v) |-> Mul(v[k], c)])

ScaleMat(m, c) == Tup([i \in 1..Len(m) |-> ScaleVec(m[i], c)])

\* faulty variant: the cross-covariances are left in place
DiagOfDiag_Full(m) == m

\* np.diag(np.diag(C)): the diagonal kept, exact zeros elsewhere
DiagOfDiag(m) ==
    Tup([i \in 1..Len(m) |-> Tup([j \in 1..Len(m) |-> IF i = j THEN m[i][i] ELSE Zero])])

\* a zero LAPACK computes: its sign depends on the build (the reference
\* routines skip the update of a zero cell, optimised ones do not)
LapackZero(x) == IF IsZero(x) THEN AnyZero ELSE x

\* LAPACK idamax on column k, rows k..n: the first row of largest magnitude.
\* With a NaN in the column the row found depends on the BLAS build, and
\* between floats known only up to rounding the last bits decide, so every
\* row that can be the answer is one.
PivotRows(A, k, n) ==
    IF \E i \in k..n : MayBeNaN(A[i][k]) THEN k..n
    ELSE {i \in k..n :
            /\ \A j \in k..n : MayBeNotLess(AbsR(A[i][k]), AbsR(A[j][k]))
            /\ \A j \in k..(i - 1) : MayBeLess(AbsR(A[j][k]), AbsR(A[i][k]))}

SwapRows(A, k, p) ==
    Tup([i \in 1..Len(A) |-> IF i = k THEN A[p] ELSE IF i = p THEN A[k] ELSE A[i]])

\* one elimination step below the pivot of column k (A is augmented with
\* b): dgetf2 scales the column by the reciprocal of the pivot
EliminateBelow(A, k, n) ==
    LET r == DivNZ(One, A[k][k])
    IN  Tup([i \in 1..n |->
            IF i <= k THEN A[i]
            ELSE LET l == Mul(A[i][k], r)
                 IN  Tup([j \in 1..(n + 1) |->
                        IF j <= k THEN A[i][j]
                        ELSE LapackZero(Sub(A[i][j], Mul(l, A[k][j])))])])

\* LAPACK dgetrf on the augmented matrix: the set of outcomes, each either
\* info > 0 (a pivot that is exactly zero) or the upper triangular system.
\* A pivot that is a rounding residue gives both: the factorization stops
\* when the float is 0.0 and goes on when it is tiny.
RECURSIVE Factor(_, _, _)
Factor(A, k, n) ==
    IF k > n THEN {[info |-> 0, U |-> A]}
    ELSE UNION {
            (IF MayBeZero(A[p][k]) THEN {[info |-> k, U |-> A]} ELSE {})
            \cup
            (IF MayBeNonZero(A[p][k])
             THEN Factor(EliminateBelow(SwapRows(A, k, p), k, n), k + 1, n)
             ELSE {})
            : p \in PivotRows(A, k, n)}

\* the sum of row[i] * x[i] over i in j..n
DotFrom(row, x, j, n) ==
    SumSeq(Tup([i \in 1..(n - j + 1) |-> Mul(row[j + i - 1], x[j + i - 1])]))

\* back substitution on the upper triangular system U x = y, last row first
RECURSIVE BackSubst(_, _, _, _)
BackSubst(U, x, i, n) ==
    IF i < 1 THEN x
    ELSE LET xi == LapackZero(DivNZ(Sub(U[i][n + 1], DotFrom(U[i], x, i + 1, n)),
                                    U[i][i]))
         IN  BackSubst(U, [x EXCEPT ![i] = xi], i - 1, n)

\* numpy.linalg.solve(C, M): the possible outcomes; LinAlgError when LAPACK
\* reports a pivot that is exactly zero
Solve(Cm, Mv) ==
    LET n == Len(Mv)
        Aug == Tup([i \in 1..n |-> Tup([j \in 1..(n + 1) |-> IF j <= n THEN Cm[i][j] ELSE Mv[i]])])
    IN  {IF o.info > 0 THEN [raised |-> "LinAlgError", x |-> <<>>]
         ELSE [raised |-> "none", x |-> BackSubst(o.U, Tup([i \in 1..n |-> Zero]), n, n)]
         : o \in Factor(Aug, 1, n)}

\* lines 40-41: with diagonal_only the covariance is cut to its diagonal
DiagonalIf(diagonal_only, Cm) == IF diagonal_only THEN DiagOfDiag(Cm) ELSE Cm

\* lines 43-44: solve and return F, M, C; an exception of solve propagates
SolveAndReturn(Mv, Cm) ==
    {IF s.raised = "none"
     THEN [raised |-> "none", F |-> s.x, M |-> Mv, C |-> Cm]
     ELSE [raised |-> s.raised, F |-> <<>>, M |-> <<>>, C |-> <<>>]
     : s \in Solve(Cm, Mv)}

\* compute_kelly_vector(excess_returns, diagonal_only): the possible outcomes
compute_kelly_vector(er, diagonal_only) ==
    SolveAndReturn(ScaleVec(Mean(er), Rat(TradingDays, 1)),
                   DiagonalIf(diagonal_only, ScaleMat(Cov(er), Rat(TradingDays, 1))))

-----------------------------------------------------------------------------
(* calc.py: portfolio statistics *)

\* np.sqrt(x), kept as the radicand: NaN for a negative or NaN x, and of no
\* definite value when the sign of x is decided by rounding
Sqrt(x) ==
    [rad |-> IF LessOutcomes(x, Zero) = {TRUE} THEN NaN
             ELSE IF LessOutcomes(x, Zero) = {FALSE} /\ Trusted(x) THEN x
             ELSE Unknown(<<"sqrt", x>>)]

\* the largest r in lo..hi with r * r <= i
RECURSIVE Root(_, _, _)
Root(i, lo, hi) ==
    IF lo >= hi THEN lo
    ELSE LET mid == (lo + hi + 1) \div 2
         IN  IF mid * mid <= i THEN Root(i, mid, hi) ELSE Root(i, lo, mid - 1)

MaxRoot == 46340

IsSquare(i) == i >= 0 /\ Root(i, 0, MaxRoot) * Root(i, 0, MaxRoot) = i

\* s ** 2 of a value Sqrt produced: the radicand itself when its root is a
\* float (or it is inf or NaN), the radicand up to rounding otherwise
Square(s) ==
    LET x == s.rad
    IN  IF IsExact(x)
        THEN (IF IsZero(x) THEN Zero
              ELSE IF x.d = 0 \/ (IsSquare(x.n) /\ IsSquare(x.d)) THEN x
              ELSE Approx(Nom(x), <<"sq", x>>))
        ELSE IF x.k = "approx" THEN Approx(Nom(x), <<"sq", x>>)
        ELSE Unknown(<<"sq", x>>)

\* F.T @ C @ F
QuadForm(Fv, Cm) ==
    LET n == Len(Fv)
        FtC == Tup([j \in 1..n |-> DotFrom(Tup([i \in 1..n |-> Cm[i][j]]), Fv, 1, n)])
    IN  DotFrom(FtC, Fv, 1, n)

compute_sharpe(Mv, Cm, Fv) == Sqrt(QuadForm(Fv, Cm))

compute_max_growth_rate(annual_rf, s) == Add(annual_rf, Div(Square(s), Rat(2, 1)))

\* faulty variant: the vector is doubled
compute_half_kelly_Doubled(Fv) == Tup([k \in 1..Len(Fv) |-> Mul(Fv[k], Rat(2, 1))])

compute_half_kelly(Fv) == Tup([k \in 1..Len(Fv) |-> Div(Fv[k], Rat(2, 1))])

-----------------------------------------------------------------------------
(* kelly.py: main, one step per call *)

\* --risk-free-rate: 0 and the default 0.05
DefaultRiskFreeRate == Rat(1, 20)

RiskFreeRates == {Zero, DefaultRiskFreeRate}

Frames(tickers, n, values) ==
    [1..n -> [1..Len(tickers) -> {Rat(v, 1) : v \in values}]]

ScaledFrames(tickers, n, values, unit) ==
    [1..n -> [1..Len(tickers) -> {Rat(v, unit) : v \in values}]]

\* parse_args: the namespace main works from
ArgSpace ==
    [tickers : TickerLists, risk_free_rate : RiskFreeRates,
     diagonal : BOOLEAN, full_kelly : BOOLEAN]

Blank ==
    /\ prices = Unset
    /\ returns = Unset
    /\ excess_returns = Unset
    /\ F = Unset
    /\ M = Unset
    /\ C = Unset
    /\ F_half = Unset
    /\ sharpe = Unset
    /\ growth_rate = Unset

\* fetch_prices returned a price matrix of at least 2 rows without NaN
FetchReturns ==
    /\ pc = "fetch_prices"
    /\ \E n \in 2..MaxFetchRows :
        \E p \in Frames(args.tickers, n, MarketPrices) : prices' = p
    /\ calls' = Append(calls, "fetch_prices")
    /\ pc' = "compute_returns"
    /\ UNCHANGED <<args, returns, excess_returns, F, M, C, F_half, sharpe,
                   growth_rate, raised, exit_code>>

\* fetch_prices raised ValueError: main prints the error and returns 2
FetchRaises ==
    /\ pc = "fetch_prices"
    /\ calls' = Append(calls, "fetch_prices")
    /\ raised' = "ValueError"
    /\ exit_code' = 2
    /\ pc' = "return"
    /\ UNCHANGED <<args, prices, returns, excess_returns, F, M, C, F_half,
                   sharpe, growth_rate>>

ComputeReturns ==
    /\ pc = "compute_returns"
    /\ returns' = compute_returns(prices)
    /\ calls' = Append(calls, "compute_returns")
    /\ pc' = "compute_excess_returns"
    /\ UNCHANGED <<args, prices, excess_returns, F, M, C, F_half, sharpe,
                   growth_rate, raised, exit_code>>

ComputeExcessReturns ==
    /\ pc = "compute_excess_returns"
    /\ excess_returns' = compute_excess_returns(returns, args.risk_free_rate)
    /\ calls' = Append(calls, "compute_excess_returns")
    /\ pc' = "compute_kelly_vector"
    /\ UNCHANGED <<args, prices, returns, F, M, C, F_half, sharpe, growth_rate,
                   raised, exit_code>>

\* compute_kelly_vector returned (F, M, C)
KellyReturns ==
    /\ pc = "compute_kelly_vector"
    /\ \E o \in compute_kelly_vector(excess_returns, args.diagonal) :
        /\ o.raised = "none"
        /\ F' = o.F
        /\ M' = o.M
        /\ C' = o.C
    /\ calls' = Append(calls, "compute_kelly_vector")
    /\ pc' = "compute_half_kelly"
    /\ UNCHANGED <<args, prices, returns, excess_returns, F_half, sharpe,
                   growth_rate, raised, exit_code>>

\* faulty variant: on LinAlgError main carries on with a zero leverage vector
KellyRaises_ZeroVector ==
    /\ pc = "compute_kelly_vector"
    /\ \E o \in compute_kelly_vector(excess_returns, args.diagonal) :
        /\ o.raised # "none"
        /\ raised' = o.raised
    /\ F' = Tup([k \in 1..Len(args.tickers) |-> Zero])
    /\ calls' = Append(calls, "compute_kelly_vector")
    /\ pc' = "compute_half_kelly"
    /\ UNCHANGED <<args, prices, returns, excess_returns, M, C, F_half,
                   sharpe, growth_rate, exit_code>>

\* compute_kelly_vector raised LinAlgError: main prints the error and returns 2
KellyRaises ==
    /\ pc = "compute_kelly_vector"
    /\ \E o \in compute_kelly_vector(excess_returns, args.diagonal) :
        /\ o.raised # "none"
        /\ raised' = o.raised
    /\ calls' = Append(calls, "compute_kelly_vector")
    /\ exit_code' = 2
    /\ pc' = "return"
    /\ UNCHANGED <<args, prices, returns, excess_returns, F, M, C, F_half,
                   sharpe, growth_rate>>

ComputeHalfKelly ==
    /\ pc = "compute_half_kelly"
    /\ F_half' = compute_half_kelly(F)
    /\ calls' = Append(calls, "compute_half_kelly")
    /\ pc' = "compute_sharpe"
    /\ UNCHANGED <<args, prices, returns, excess_returns, F, M, C, sharpe,
                   growth_rate, raised, exit_code>>

ComputeSharpe ==
    /\ pc = "compute_sharpe"
    /\ sharpe' = compute_sharpe(M, C, F)
    /\ calls' = Append(calls, "compute_sharpe")
    /\ pc' = "compute_max_growth_rate"
    /\ UNCHANGED <<args, prices, returns, excess_returns, F, M, C, F_half,
                   growth_rate, raised, exit_code>>

\* faulty variant: the default rate is used whatever --risk-free-rate says
ComputeMaxGrowthRate_DefaultRate ==
    /\ pc = "compute_max_growth_rate"
    /\ growth_rate' = compute_max_growth_rate(DefaultRiskFreeRate, sharpe)
    /\ calls' = Append(calls, "compute_max_growth_rate")
    /\ pc' = "print_results"
    /\ UNCHANGED <<args, prices, returns, excess_returns, F, M, C, F_half,
                   sharpe, raised, exit_code>>

ComputeMaxGrowthRate ==
    /\ pc = "compute_max_growth_rate"
    /\ growth_rate' = compute_max_growth_rate(args.risk_free_rate, sharpe)
    /\ calls' = Append(calls, "compute_max_growth_rate")
    /\ pc' = "print_results"
    /\ UNCHANGED <<args, prices, returns, excess_returns, F, M, C, F_half,
                   sharpe, raised, exit_code>>

PrintResults ==
    /\ pc = "print_results"
    /\ calls' = Append(calls, "print_results")
    /\ pc' = "print_warnings"
    /\ UNCHANGED <<args, prices, returns, excess_returns, F, M, C, F_half,
                   sharpe, growth_rate, raised, exit_code>>

\* print_warnings, then return 0
PrintWarnings ==
    /\ pc = "print_warnings"
    /\ calls' = Append(calls, "print_warnings")
    /\ exit_code' = 0
    /\ pc' = "return"
    /\ UNCHANGED <<args, prices, returns, excess_returns, F, M, C, F_half,
                   sharpe, growth_rate, raised>>

\* main(argv)
Init ==
    /\ pc = "fetch_prices"
    /\ args \in ArgSpace
    /\ Blank
    /\ raised = "none"
    /\ calls = <<>>
    /\ exit_code = -1

Next ==
    \/ FetchReturns
    \/ FetchRaises
    \/ ComputeReturns
    \/ ComputeExcessReturns
    \/ KellyReturns
    \/ KellyRaises
    \/ ComputeHalfKelly
    \/ ComputeSharpe
    \/ ComputeMaxGrowthRate
    \/ PrintResults
    \/ PrintWarnings

Spec == Init /\ [][Next]_vars

-----------------------------------------------------------------------------
(* The transforms on their own: compute_returns and compute_excess_returns  *)
(* applied to any price matrix, zero and negative prices included          *)

TransformInit ==
    /\ pc = "compute_returns"
    /\ args \in [tickers : TickerLists, risk_free_rate : RiskFreeRates,
                 diagonal : {FALSE}, full_kelly : {FALSE}]
    /\ \E n \in 1..MaxPriceRows : prices \in Frames(args.tickers, n, PriceValues)
    /\ returns = Unset
    /\ excess_returns = Unset
    /\ F = Unset
    /\ M = Unset
    /\ C = Unset
    /\ F_half = Unset
    /\ sharpe = Unset
    /\ growth_rate = Unset
    /\ raised = "none"
    /\ calls = <<>>
    /\ exit_code = -1

TransformNext == ComputeReturns \/ ComputeExcessReturns

TransformSpec == TransformInit /\ [][TransformNext]_vars

-----------------------------------------------------------------------------
(* The solver and the statistics on their own: compute_kelly_vector        *)
(* applied to any excess-returns matrix, then the statistics of its result *)

KellyInit ==
    /\ pc = "compute_kelly_vector"
    /\ args \in [tickers : TickerLists, risk_free_rate : {DefaultRiskFreeRate},
                 diagonal : BOOLEAN, full_kelly : {FALSE}]
    /\ \E n \in 1..MaxObs :
        excess_returns \in ScaledFrames(args.tickers, n, ExcessHundredths, 100)
    /\ prices = Unset
    /\ returns = Unset
    /\ F = Unset
    /\ M = Unset
    /\ C = Unset
    /\ F_half = Unset
    /\ sharpe = Unset
    /\ growth_rate = Unset
    /\ raised = "none"
    /\ calls = <<>>
    /\ exit_code = -1

KellyNext ==
    \/ KellyReturns
    \/ KellyRaises
    \/ ComputeHalfKelly
    \/ ComputeSharpe
    \/ ComputeMaxGrowthRate

KellySpec == KellyInit /\ [][KellyNext]_vars

-----------------------------------------------------------------------------------------------------------------------------------------------------
(* Vocabulary of the properties.  The reference statistics are exact       *)
(* rationals computed from raw sums, not by the route the code takes; a    *)
(* float agrees with one when its n/d part is that rational, that is, up   *)
(* to rounding error.                                                      *)

Called(name) == \E i \in 1..Len(calls) : calls[i] = name

Tickers == Len(args.tickers)

\* x < y whatever the rounding
Below(x, y) == ~MayBeNotLess(x, y)

AllPositive(p) == \A t \in 1..Len(p) : \A k \in 1..Len(p[t]) : Below(Zero, p[t][k])

\* the float x is the rational q, exactly or up to rounding error
Near(x, q) == Trusted(x) /\ Nom(x) = q

\* x and y are the same float, or agree up to rounding error
Alike(x, y) == x = y \/ (Trusted(x) /\ Trusted(y) /\ Nom(x) = Nom(y))

AlikeVec(u, v) == Len(u) = Len(v) /\ \A k \in 1..Len(u) : Alike(u[k], v[k])

AlikeMat(a, b) == Len(a) = Len(b) /\ \A i \in 1..Len(a) : AlikeVec(a[i], b[i])

RECURSIVE RawSum(_, _, _)
RawSum(x, k, t) == IF t > Len(x) THEN QZero ELSE QAdd(x[t][k], RawSum(x, k, t + 1))

RECURSIVE RawSumProd(_, _, _, _)
RawSumProd(x, i, j, t) ==
    IF t > Len(x) THEN QZero
    ELSE QAdd(QMul(x[t][i], x[t][j]), RawSumProd(x, i, j, t + 1))

\* sum of x_i * x_j minus (sum x_i)(sum x_j) / n
CenteredCross(x, i, j) ==
    QSub(RawSumProd(x, i, j, 1),
         QDiv(QMul(RawSum(x, i, 1), RawSum(x, j, 1)), Norm(Len(x), 1)))

\* 252 times the mean of column k
AnnualMean(x, k) == QDiv(QMul(Norm(252, 1), RawSum(x, k, 1)), Norm(Len(x), 1))

\* 252 times the unbiased sample covariance of columns i and j
AnnualCov(x, i, j) ==
    QDiv(QMul(Norm(252, 1), CenteredCross(x, i, j)), Norm(Len(x) - 1, 1))

-----------------------------------------------------------------------------
(* Properties of the transforms (TransformSpec) *)

\* C1: for a price matrix of N >= 2 rows with all prices positive,
\* compute_returns yields N-1 rows over the same instruments, and the cell
\* of row t and instrument k is (price[t,k] - price[t-1,k]) / price[t-1,k];
\* the first price row yields no return row.
C1_ReturnsFormula ==
    (Called("compute_returns") /\ Len(prices) >= 2 /\ AllPositive(prices)) =>
        /\ Len(returns) = Len(prices) - 1
        /\ \A t \in 1..Len(returns) :
            /\ Len(returns[t]) = Tickers
            /\ \A k \in 1..Tickers :
                Near(returns[t][k],
                     QDiv(QSub(prices[t + 1][k], prices[t][k]), prices[t][k]))

C1_Witness ==
    /\ Called("compute_returns")
    /\ Len(prices) = 3
    /\ Tickers = 2
    /\ AllPositive(prices)
    /\ Below(returns[1][1], Zero)
    /\ Below(Zero, returns[2][2])

\* C4: compute_returns fails with InvalidInput whenever the price matrix
\* holds a zero or negative price, and returns no matrix for such input.
C4_NonPositivePriceRejected ==
    (/\ Called("compute_returns")
     /\ \E t \in 1..Len(prices) : \E k \in 1..Tickers : MayBeNotLess(Zero, prices[t][k]))
    => (raised = "InvalidInput" /\ returns = Unset)

\* C7: compute_excess_returns returns a matrix of the shape of its input in
\* which every cell is the input cell minus rf/252, the same offset for
\* every row and instrument; with rf = 0 it is the input matrix itself.
C7_ExcessFormula ==
    Called("compute_excess_returns") =>
        LET rf == args.risk_free_rate
            daily == Norm(rf.n, rf.d * 252)
        IN  /\ Len(excess_returns) = Len(returns)
            /\ \A t \in 1..Len(returns) :
                /\ Len(excess_returns[t]) = Len(returns[t])
                /\ \A k \in 1..Len(returns[t]) :
                    Near(excess_returns[t][k], QSub(returns[t][k], daily))
            /\ (rf = Zero => excess_returns = returns)

C7_Witness ==
    /\ Called("compute_excess_returns")
    /\ args.risk_free_rate # Zero
    /\ Len(returns) = 2
    /\ Tickers = 2
    /\ SurelyFinite(returns[1][1])
    /\ excess_returns[1][1] # returns[1][1]

-----------------------------------------------------------------------------
(* Properties of the solver and the statistics (KellySpec) *)

\* the excess-return series have a singular covariance matrix: fewer
\* observations than instruments, a constant series, or two collinear series
SingularInput(x) ==
    \/ Len(x) < NCols(x)
    \/ /\ Len(x) >= 2
       /\ \/ \E k \in 1..NCols(x) : CenteredCross(x, k, k) = QZero
          \/ \E i, j \in 1..NCols(x) :
                /\ i # j
                /\ QMul(CenteredCross(x, i, i), CenteredCross(x, j, j))
                     = QMul(CenteredCross(x, i, j), CenteredCross(x, i, j))

\* C2: whenever the covariance matrix of the excess returns is singular,
\* compute_kelly_vector fails with the singular-covariance error and returns
\* no (F, M, C).
C2_SingularAlwaysRaises ==
    (Called("compute_kelly_vector") /\ SingularInput(excess_returns)) =>
        (raised = "LinAlgError" /\ F = Unset /\ M = Unset /\ C = Unset)

\* C3: for a single instrument whose series has a non-zero sample variance,
\* compute_kelly_vector returns F[0] = M[0] / C[0,0] with M[0] 252 times the
\* mean and C[0,0] 252 times the unbiased sample variance, for either value
\* of diagonal_only.
C3_SingleInstrument ==
    (/\ Called("compute_kelly_vector")
     /\ Tickers = 1
     /\ Len(excess_returns) >= 2
     /\ CenteredCross(excess_returns, 1, 1) # QZero)
    => /\ raised = "none"
       /\ Len(M) = 1 /\ Len(C) = 1 /\ Len(C[1]) = 1 /\ Len(F) = 1
       /\ Near(M[1], AnnualMean(excess_returns, 1))
       /\ Near(C[1][1], AnnualCov(excess_returns, 1, 1))
       /\ Near(F[1], QDiv(M[1], C[1][1]))

C3_Witness ==
    /\ Called("compute_kelly_vector")
    /\ Tickers = 1
    /\ Len(excess_returns) = 3
    /\ args.diagonal
    /\ raised = "none"
    /\ Below(F[1], Zero)

\* C6: for every (F, M, C) a compute_kelly_vector call returned, the
\* radicand F^T C F of compute_sharpe is non-negative and equals M^T F, the
\* Sharpe ratio is a non-negative real (never NaN), and for one instrument
\* it is |M| / sqrt(C).
C6_SharpeRadicand ==
    Called("compute_sharpe") =>
        LET r == QuadForm(F, C)
        IN  /\ SurelyFinite(r)
            /\ Trusted(r)
            /\ ~MayBeLess(r, Zero)
            /\ Alike(r, DotFrom(M, F, 1, Len(F)))
            /\ sharpe = [rad |-> r]
            /\ (Tickers = 1 => Near(sharpe.rad, QDiv(QMul(M[1], M[1]), C[1][1])))

\* C8: when the sample cross-covariances are all zero and the variances are
\* not, the calls with diagonal_only=True and diagonal_only=False return the
\* same F, M and C; and for any input the call with diagonal_only=True
\* returns a C whose off-diagonal entries are zero and F[k] = M[k] / C[k,k].
C8_DiagonalAgreement ==
    (Called("compute_kelly_vector") /\ raised = "none") =>
        /\ (/\ Len(excess_returns) >= 2
            /\ \A i, j \in 1..Tickers :
                (CenteredCross(excess_returns, i, j) = QZero) <=> (i # j))
           => \A o \in compute_kelly_vector(excess_returns, ~args.diagonal) :
                /\ o.raised = "none"
                /\ AlikeVec(o.F, F)
                /\ AlikeVec(o.M, M)
                /\ AlikeMat(o.C, C)
        /\ args.diagonal =>
            \A i \in 1..Tickers :
                /\ Alike(F[i], DivNZ(M[i], C[i][i]))
                /\ \A j \in 1..Tickers : i # j => C[i][j] = Zero

C8_Witness ==
    /\ Called("compute_kelly_vector")
    /\ raised = "none"
    /\ args.diagonal
    /\ Tickers = 2
    /\ Len(excess_returns) >= 2
    /\ CenteredCross(excess_returns, 1, 2) = QZero
    /\ CenteredCross(excess_returns, 1, 1) # QZero
    /\ CenteredCross(excess_returns, 2, 2) # QZero
    /\ Trusted(F[1])
    /\ F[1].n # 0

\* C10: compute_half_kelly returns a vector of the length of F whose every
\* element is half of the element of F (twice it gives F back, sign kept),
\* and the call leaves F unchanged.
C10_HalfKelly ==
    [][pc = "compute_half_kelly" =>
        /\ F' = F
        /\ Len(F_half') = Len(F)
        /\ \A k \in 1..Len(F) :
            /\ Alike(F_half'[k], Div(F[k], Rat(2, 1)))
            /\ Trusted(F[k]) =>
                /\ Near(F_half'[k], QDiv(F[k], Norm(2, 1)))
                /\ QAdd(F_half'[k], F_half'[k]) = Nom(F[k])
                /\ Sgn(F_half'[k].n) = Sgn(F[k].n)]_vars

C10_Witness ==
    /\ Called("compute_half_kelly")
    /\ Len(F) = 2
    /\ Below(F[1], Zero)
    /\ Below(Zero, F[2])
    /\ F_half[1] # F[1]

-----------------------------------------------------------------------------
(* Properties of main (Spec) *)

\* C5: when the Kelly solve fails, main returns a non-zero exit code and
\* stops: no statistic is computed, nothing is printed and no leverage
\* vector is substituted; a data-fetch failure stops the run before any
\* computation stage.
C5_FailureStopsPipeline ==
    /\ raised = "LinAlgError" =>
        /\ exit_code = 2
        /\ pc = "return"
        /\ calls = <<"fetch_prices", "compute_returns", "compute_excess_returns",
                     "compute_kelly_vector">>
        /\ F = Unset /\ F_half = Unset /\ sharpe = Unset /\ growth_rate = Unset
        /\ ~ENABLED Next
    /\ raised = "ValueError" =>
        /\ exit_code = 2
        /\ pc = "return"
        /\ calls = <<"fetch_prices">>
        /\ returns = Unset /\ excess_returns = Unset /\ F = Unset
        /\ ~ENABLED Next

C5_Witness ==
    /\ raised = "LinAlgError"
    /\ pc = "return"
    /\ Len(excess_returns) = 3
    /\ Tickers = 2

\* C9: compute_max_growth_rate returns rf + S*S/2, which is rf when S = 0,
\* and in main the rf it is given is the rate compute_excess_returns was
\* given.
C9_GrowthRate ==
    Called("compute_max_growth_rate") =>
        LET rf == args.risk_free_rate
            S2 == Square(sharpe)
        IN  /\ Alike(growth_rate, Add(rf, Div(S2, Rat(2, 1))))
            /\ Trusted(S2) => Near(growth_rate, QAdd(rf, QDiv(S2, Norm(2, 1))))
            /\ (IsZero(sharpe.rad) => growth_rate = rf)
            /\ \A t \in 1..Len(returns) : \A k \in 1..Tickers :
                Near(excess_returns[t][k],
                     QSub(returns[t][k], Norm(rf.n, rf.d * 252)))

C9_Witness ==
    /\ Called("compute_max_growth_rate")
    /\ args.risk_free_rate # Zero
    /\ Below(Zero, sharpe.rad)
    /\ growth_rate # args.risk_free_rate

=============================================================================
